---------------------------- MODULE Spec2Model ----------------------------
(***************************************************************************)
(* Model of the ESP-NOW mesh engine of device-firmware/src/mesh_network.cpp *)
(* (peer table, routing table, frame processor, periodic driver).           *)
(*                                                                          *)
(* Every node's file-scope globals are kept per node (indexed by the byte   *)
(* its MAC address is built from), so that the same definitions serve the   *)
(* single-node specification Spec, in which one node is fed arbitrary       *)
(* frames, and the network specification NetSpec, in which several nodes    *)
(* exchange the frames they send.                                           *)
(***************************************************************************)
EXTENDS Integers, Sequences, FiniteSets, TLC

\* ==================== Configuration ====================

\* mesh_network.cpp:16 sets 20; the tables are scaled down so that a full
\* table (and an insert into it) is reachable.
MAX_PEERS == 2
HEARTBEAT_INTERVAL == 30000
PEER_TIMEOUT == 120000
\* mesh_network.h:19; the .cpp writes the literal 5.
MAX_HOP_COUNT == 5
\* handleDiscovery's literal 3.
DISCOVERY_HOP_LIMIT == 3
\* uint8_t data[200] and the literal 200 of sendData / sizeof(MeshMessage) - 200.
MAX_DATA_SIZE == 200
\* sizeof(MeshMessage) - 200: type 1, srcMac 6, dstMac 6, hopCount 1,
\* sequenceNum 2, dataLen 2, no padding.
HEADER_SIZE == 18
\* int8_t rssi = -50 of processMessage.
DEFAULT_RSSI == -50

MSG_DISCOVERY == 1
MSG_HEARTBEAT == 2
MSG_DATA == 3
MSG_ROUTE_REQUEST == 4
MSG_ROUTE_REPLY == 5
MSG_ACK == 6

\* ==================== Bounds of the model ====================

\* The clock takes the first MaxClock values of ClockPoints.
MaxClock == 3
\* Frames a node may originate (the 16-bit sequence counter is kept mod 2^16;
\* this caps how far it runs).
MaxOriginated == 2
\* Payloads the originator's application sends in NetSpec.
MaxNetData == 1

\* Frames a node may originate in SeqSpec.
MaxSeqOriginated == 4

\* ==================== Integer widths ====================

U8(x) == x % 256
\* U16 that stops at 65535 instead of wrapping.
U16Saturating(x) == IF x > 65535 THEN 65535 ELSE x
U16(x) == x % 65536
\* uint32_t subtraction, as in now - lastSeen. The model's clock stays far
\* below 2^32 and never runs backwards, so b <= a and nothing wraps.
Sub32(a, b) == a - b

\* ==================== Addresses ====================

\* A 6-byte MAC address; the model's addresses repeat one byte six times.
MAC(b) == [i \in 1..6 |-> b]
BROADCAST_MAC == MAC(255)

\* ==================== MeshMessage in memory and on the wire ====================

\* A MeshMessage in memory: data holds the bytes of the buffer that were
\* written; every byte of data[200] that was never written reads as junk.
MeshMessage(type, src, dst, hop, seq, dataLen, data, junk) ==
    [type |-> type, srcMac |-> src, dstMac |-> dst, hopCount |-> hop,
     sequenceNum |-> seq, dataLen |-> dataLen, data |-> data, junk |-> junk]

\* msg->data[i], i counted from 0.
DataAt(msg, i) == IF i < Len(msg.data) THEN msg.data[i + 1] ELSE msg.junk

\* msg->data read as a MAC address (its first six bytes).
DataMac(msg) == [i \in 1..6 |-> DataAt(msg, i - 1)]

\* WireBytes with the 16-bit fields in network (big-endian) byte order.
WireBytesBigEndian(msg) ==
    <<msg.type>> \o msg.srcMac \o msg.dstMac
    \o <<msg.hopCount,
         msg.sequenceNum \div 256, msg.sequenceNum % 256,
         msg.dataLen \div 256, msg.dataLen % 256>>
    \o [i \in 1..msg.dataLen |-> IF i <= Len(msg.data) THEN msg.data[i] ELSE msg.junk]

\* The bytes esp_now_send is given: the first sizeof(MeshMessage) - 200 +
\* dataLen bytes of the struct, integers in the host's (little-endian) order.
WireBytes(msg) ==
    <<msg.type>> \o msg.srcMac \o msg.dstMac
    \o <<msg.hopCount,
         msg.sequenceNum % 256, msg.sequenceNum \div 256,
         msg.dataLen % 256, msg.dataLen \div 256>>
    \o [i \in 1..msg.dataLen |-> DataAt(msg, i - 1)]

\* memcpy(&msg, data, len) onto an uninitialised MeshMessage (len >= 18): the
\* header fields and the len - 18 payload bytes received; the rest is junk.
ReadMessage(buf, junk) ==
    MeshMessage(buf[1], SubSeq(buf, 2, 7), SubSeq(buf, 8, 13), buf[14],
                buf[15] + 256 * buf[16], buf[17] + 256 * buf[18],
                SubSeq(buf, HEADER_SIZE + 1, Len(buf)), junk)

\* ==================== Node state ====================

VARIABLES
    meshUp,          \* [node -> BOOLEAN]: initMesh has run (callbacks registered)
    peers,           \* [node -> Seq(MeshPeer)]: peers[0 .. peerCount-1]
    routingTable,    \* [node -> Seq(RouteEntry)]: routingTable[0 .. routeCount-1]
    sequenceNumber,  \* [node -> 0..65535]
    isGateway,       \* [node -> BOOLEAN]
    lastHeartbeat,   \* [node -> uint32]
    onDataReceived,  \* [node -> BOOLEAN]: a data callback is registered
    now,             \* millis()
    op,              \* the call made by the last step
    sent,            \* what the last step handed to esp_now_send, in order
    delivered,       \* the data callback's invocations during the last step
    air,             \* frames in flight between nodes (NetSpec)
    inbox,           \* [node -> set of (src, payload) the application was given] (NetSpec)
    outbox,          \* the (src, dst, payload) handed to sendData so far (NetSpec)
    codec,           \* a frame on its way through the send and receive paths (CodecSpec)
    mainTask         \* how far the main task's meshLoop call has got (RaceSpec)

vars == <<meshUp, peers, routingTable, sequenceNumber, isGateway, lastHeartbeat,
          onDataReceived, now, op, sent, delivered, air, inbox, outbox, codec,
          mainTask>>

\* The globals of node n as one record, with the outputs of the call in
\* progress: out (esp_now_send calls) and cb (data callback invocations).
NodeState(n) ==
    [myMac |-> MAC(n), peers |-> peers[n], routingTable |-> routingTable[n],
     sequenceNumber |-> sequenceNumber[n], isGateway |-> isGateway[n],
     lastHeartbeat |-> lastHeartbeat[n], onDataReceived |-> onDataReceived[n],
     out |-> <<>>, cb |-> <<>>]

\* ==================== Message Sending ====================

sendBroadcast(s, msg) ==
    [s EXCEPT !.out = Append(@, [to |-> BROADCAST_MAC, bytes |-> WireBytes(msg)])]

sendUnicast(s, dest, msg) ==
    [s EXCEPT !.out = Append(@, [to |-> dest, bytes |-> WireBytes(msg)])]

\* GatewayByte with the two values swapped.
GatewayByteInverted(s) == IF s.isGateway THEN 0 ELSE 1

\* isGateway ? 1 : 0
GatewayByte(s) == IF s.isGateway THEN 1 ELSE 0

sendDiscovery(s) ==
    LET msg == MeshMessage(MSG_DISCOVERY, s.myMac, BROADCAST_MAC, 0,
                           s.sequenceNumber, 1, <<GatewayByte(s)>>, 0)
    IN sendBroadcast([s EXCEPT !.sequenceNumber = U16(@ + 1)], msg)

sendHeartbeat(s) ==
    LET msg == MeshMessage(MSG_HEARTBEAT, s.myMac, BROADCAST_MAC, 0,
                           s.sequenceNumber, 2,
                           <<U8(Len(s.peers)), GatewayByte(s)>>, 0)
    IN sendBroadcast([s EXCEPT !.sequenceNumber = U16(@ + 1)], msg)

\* ==================== Peer Management ====================

\* findPeer with its loop stopping one entry early.
findPeerOffByOne(s, mac) ==
    LET hits == {i \in 1..(Len(s.peers) - 1) : s.peers[i].mac = mac}
    IN IF hits = {} THEN -1
       ELSE (CHOOSE i \in hits : \A j \in hits : i <= j) - 1

\* The C index of mac in peers[0 .. peerCount-1], or -1.
findPeer(s, mac) ==
    LET hits == {i \in 1..Len(s.peers) : s.peers[i].mac = mac}
    IN IF hits = {} THEN -1
       ELSE (CHOOSE i \in hits : \A j \in hits : i <= j) - 1

\* PeerIsFresh with <= for <.
PeerIsFreshInclusive(p, t) == Sub32(t, p.lastSeen) <= PEER_TIMEOUT

\* The test of removeStalePeers' loop: the entry is kept.
PeerIsFresh(p, t) == Sub32(t, p.lastSeen) < PEER_TIMEOUT

\* removeStalePeers' loop from index i on: arr is the peers array, writeIdx
\* the next slot to fill; the result is the array and writeIdx at the loop's
\* end, before peerCount = writeIdx.
RECURSIVE removeStalePeersLoop(_, _, _, _)
removeStalePeersLoop(arr, i, writeIdx, t) ==
    IF i >= Len(arr) THEN [arr |-> arr, writeIdx |-> writeIdx]
    ELSE IF PeerIsFresh(arr[i + 1], t)
         THEN removeStalePeersLoop([arr EXCEPT ![writeIdx + 1] = arr[i + 1]],
                                   i + 1, writeIdx + 1, t)
         ELSE removeStalePeersLoop(arr, i + 1, writeIdx, t)

removeStalePeers(s, t) ==
    LET r == removeStalePeersLoop(s.peers, 0, 0, t)
    IN [s EXCEPT !.peers = SubSeq(r.arr, 1, r.writeIdx)]

NewPeer(mac, rssi, hopCount, isGatewayPeer, t) ==
    [mac |-> mac, rssi |-> rssi, lastSeen |-> t, hopCount |-> hopCount,
     isGateway |-> isGatewayPeer, isActive |-> TRUE]

\* addPeer without the second capacity test, after the eviction.
addPeerNoRecheck(s, mac, rssi, hopCount, isGatewayPeer, t) ==
    LET s1 == IF Len(s.peers) >= MAX_PEERS THEN removeStalePeers(s, t) ELSE s
    IN [s1 EXCEPT !.peers =
            Append(@, NewPeer(mac, rssi, hopCount, isGatewayPeer, t))]

addPeer(s, mac, rssi, hopCount, isGatewayPeer, t) ==
    LET s1 == IF Len(s.peers) >= MAX_PEERS THEN removeStalePeers(s, t) ELSE s
    IN IF Len(s1.peers) >= MAX_PEERS THEN s1
       ELSE [s1 EXCEPT !.peers =
                Append(@, NewPeer(mac, rssi, hopCount, isGatewayPeer, t))]

\* ==================== Routing Table ====================

\* findRoute with its loop starting at the second entry.
findRouteSkipFirst(s, dest) ==
    LET hits == {i \in 2..Len(s.routingTable) : s.routingTable[i].destination = dest}
    IN IF hits = {} THEN 0 ELSE CHOOSE i \in hits : \A j \in hits : i <= j

\* The position (from 1) of dest's entry in routingTable, or 0 for nullptr.
findRoute(s, dest) ==
    LET hits == {i \in 1..Len(s.routingTable) : s.routingTable[i].destination = dest}
    IN IF hits = {} THEN 0 ELSE CHOOSE i \in hits : \A j \in hits : i <= j

\* RouteIsBetter with <= for <.
RouteIsBetterOrEqual(hopCount, existing) == hopCount <= existing.hopCount

\* The test of updateRoute: the offered route replaces the stored one.
RouteIsBetter(hopCount, existing) == hopCount < existing.hopCount

updateRoute(s, dest, nextHop, hopCount, t) ==
    LET existing == findRoute(s, dest)
    IN IF existing # 0
       THEN LET e == s.routingTable[existing]
                e1 == IF RouteIsBetter(hopCount, e)
                      THEN [e EXCEPT !.nextHop = nextHop, !.hopCount = hopCount]
                      ELSE e
            IN [s EXCEPT !.routingTable[existing] = [e1 EXCEPT !.lastUpdated = t]]
       ELSE IF Len(s.routingTable) < MAX_PEERS
            THEN [s EXCEPT !.routingTable =
                     Append(@, [destination |-> dest, nextHop |-> nextHop,
                                hopCount |-> hopCount, lastUpdated |-> t])]
            ELSE s

\* ==================== Message Processing ====================

\* DiscoveryHopAllows with <= for <.
DiscoveryHopAllowsInclusive(msg) == msg.hopCount <= DISCOVERY_HOP_LIMIT

\* The test of handleDiscovery: the discovery is answered.
DiscoveryHopAllows(msg) == msg.hopCount < DISCOVERY_HOP_LIMIT

handleDiscovery(s, msg, t) ==
    LET reply == MeshMessage(MSG_DISCOVERY, s.myMac, msg.srcMac,
                             U8(msg.hopCount + 1), s.sequenceNumber, 1,
                             <<GatewayByte(s)>>, 0)
        s1 == IF DiscoveryHopAllows(msg)
              THEN sendUnicast([s EXCEPT !.sequenceNumber = U16(@ + 1)],
                               msg.srcMac, reply)
              ELSE s
    IN updateRoute(s1, msg.srcMac, msg.srcMac, 1, t)

\* HopCountAllows with <= for <.
HopCountAllowsInclusive(msg) == msg.hopCount <= MAX_HOP_COUNT

\* The test of handleData and handleRouteRequest: the frame may be relayed.
HopCountAllows(msg) == msg.hopCount < MAX_HOP_COUNT

\* The link-layer address sendData hands the frame to.
sendDataNextHop(s, dest) ==
    LET route == findRoute(s, dest)
    IN IF route # 0 THEN s.routingTable[route].nextHop ELSE dest

\* forwardData that, without a route, addresses the destination itself.
forwardDataDirect(s, fwd) ==
    LET route == findRoute(s, fwd.dstMac)
    IN IF route # 0
       THEN sendUnicast(s, s.routingTable[route].nextHop, fwd)
       ELSE sendUnicast(s, fwd.dstMac, fwd)

\* handleData's relay of fwd (msg with hopCount already incremented).
forwardData(s, fwd) ==
    LET route == findRoute(s, fwd.dstMac)
    IN IF route # 0
       THEN sendUnicast(s, s.routingTable[route].nextHop, fwd)
       ELSE sendBroadcast(s, fwd)

\* handleData with the hop limit tested before the destination.
handleDataHopFirst(s, msg) ==
    IF ~HopCountAllows(msg) THEN s
    ELSE IF msg.dstMac = s.myMac
         THEN IF s.onDataReceived
              THEN [s EXCEPT !.cb = Append(@,
                       [src |-> msg.srcMac, len |-> msg.dataLen,
                        data |-> [i \in 1..msg.dataLen |-> DataAt(msg, i - 1)]])]
              ELSE s
         ELSE forwardData(s, [msg EXCEPT !.hopCount = U8(@ + 1)])

handleData(s, msg) ==
    IF msg.dstMac = s.myMac
    THEN IF s.onDataReceived
         THEN [s EXCEPT !.cb = Append(@,
                  [src |-> msg.srcMac, len |-> msg.dataLen,
                   data |-> [i \in 1..msg.dataLen |-> DataAt(msg, i - 1)]])]
         ELSE s
    ELSE IF HopCountAllows(msg)
         THEN forwardData(s, [msg EXCEPT !.hopCount = U8(@ + 1)])
         ELSE s

handleRouteRequest(s, msg) ==
    LET route == findRoute(s, DataMac(msg))
        reply == MeshMessage(MSG_ROUTE_REPLY, s.myMac, msg.srcMac, 0,
                             s.sequenceNumber, 7,
                             DataMac(msg) \o
                             << IF route # 0
                                THEN U8(s.routingTable[route].hopCount + 1)
                                ELSE 1 >>, 0)
    IN IF route # 0 \/ DataMac(msg) = s.myMac
       THEN sendUnicast([s EXCEPT !.sequenceNumber = U16(@ + 1)],
                        msg.srcMac, reply)
       ELSE IF HopCountAllows(msg)
            THEN sendBroadcast(s, [msg EXCEPT !.hopCount = U8(@ + 1)])
            ELSE s

handleRouteReply(s, msg, t) ==
    updateRoute(s, DataMac(msg), msg.srcMac, DataAt(msg, 6), t)

\* IsFromSelf comparing the destination instead of the source.
IsToSelf(s, msg) == msg.dstMac = s.myMac

\* The first test of processMessage.
IsFromSelf(s, msg) == msg.srcMac = s.myMac

\* The peer update without the lastSeen refresh of a known peer.
updatePeerInfoNoTouch(s, msg, t) ==
    LET peerIdx == findPeer(s, msg.srcMac)
    IN IF peerIdx < 0
       THEN addPeer(s, msg.srcMac, DEFAULT_RSSI, msg.hopCount,
                    DataAt(msg, 0) = 1, t)
       ELSE [s EXCEPT !.peers[peerIdx + 1].hopCount = msg.hopCount]

\* processMessage's peer update ("Update peer info").
updatePeerInfo(s, msg, t) ==
    LET peerIdx == findPeer(s, msg.srcMac)
    IN IF peerIdx < 0
       THEN addPeer(s, msg.srcMac, DEFAULT_RSSI, msg.hopCount,
                    DataAt(msg, 0) = 1, t)
       ELSE [s EXCEPT !.peers[peerIdx + 1].lastSeen = t,
                      !.peers[peerIdx + 1].hopCount = msg.hopCount]

processMessage(s, msg, t) ==
    IF IsFromSelf(s, msg) THEN s
    ELSE LET s1 == updatePeerInfo(s, msg, t)
         IN CASE msg.type = MSG_DISCOVERY -> handleDiscovery(s1, msg, t)
              [] msg.type = MSG_HEARTBEAT -> s1
              [] msg.type = MSG_DATA -> handleData(s1, msg)
              [] msg.type = MSG_ROUTE_REQUEST -> handleRouteRequest(s1, msg)
              [] msg.type = MSG_ROUTE_REPLY -> handleRouteReply(s1, msg, t)
              [] OTHER -> s1

\* onDataRecv: buf is the received buffer (len = Len(buf)), junk what the
\* bytes of the local MeshMessage that memcpy does not write happen to hold.
onDataRecv(s, buf, junk, t) ==
    IF Len(buf) < HEADER_SIZE THEN s
    ELSE processMessage(s, ReadMessage(buf, junk), t)

\* ==================== Public functions ====================

sendData(s, dest, data, len) ==
    LET n == IF len > MAX_DATA_SIZE THEN MAX_DATA_SIZE ELSE len
        msg == MeshMessage(MSG_DATA, s.myMac, dest, 0, s.sequenceNumber, n,
                           SubSeq(data, 1, n), 0)
    IN sendUnicast([s EXCEPT !.sequenceNumber = U16(@ + 1)],
                   sendDataNextHop(s, dest), msg)

\* The test of meshLoop: a heartbeat is due.
HeartbeatDue(s, t) == Sub32(t, s.lastHeartbeat) > HEARTBEAT_INTERVAL

meshLoop(s, t) ==
    IF HeartbeatDue(s, t)
    THEN removeStalePeers([sendHeartbeat(s) EXCEPT !.lastHeartbeat = t], t)
    ELSE s

getPeerCount(s) == Len(s.peers)

\* The test of getNearestGateway's loop: entry p becomes the nearest so far.
IsNearerGateway(p, minHops) == p.isGateway /\ p.hopCount < minHops

\* getNearestGateway's loop from index i on; nearest is the position (from 1)
\* of the entry pointed to so far, 0 for nullptr.
RECURSIVE getNearestGatewayLoop(_, _, _, _)
getNearestGatewayLoop(ps, i, nearest, minHops) ==
    IF i >= Len(ps) THEN nearest
    ELSE IF IsNearerGateway(ps[i + 1], minHops)
         THEN getNearestGatewayLoop(ps, i + 1, i + 1, ps[i + 1].hopCount)
         ELSE getNearestGatewayLoop(ps, i + 1, nearest, minHops)

\* The position (from 1) of the entry getNearestGateway returns, 0 for nullptr.
getNearestGateway(s) == getNearestGatewayLoop(s.peers, 0, 0, 255)

\* ==================== The node under test and its inputs ====================

\* The node under test; its MAC is MAC(Self).
Self == 1
\* A destination that is nobody's neighbour.
Far == 5
\* The sequence number received frames carry.
RxSequence == 513
\* The application payload "hi".
Hi == <<104, 105>>

Discovery(a, h, g) ==
    MeshMessage(MSG_DISCOVERY, MAC(a), BROADCAST_MAC, h, RxSequence, 1, <<g>>, 0)
Heartbeat(a, count, g) ==
    MeshMessage(MSG_HEARTBEAT, MAC(a), BROADCAST_MAC, 0, RxSequence, 2, <<count, g>>, 0)
Data(a, d, h, p) ==
    MeshMessage(MSG_DATA, MAC(a), MAC(d), h, RxSequence, Len(p), p, 0)
RouteRequest(a, q, h) ==
    MeshMessage(MSG_ROUTE_REQUEST, MAC(a), BROADCAST_MAC, h, RxSequence, 6, MAC(q), 0)
RouteReply(a, d, q, h) ==
    MeshMessage(MSG_ROUTE_REPLY, MAC(a), MAC(d), 0, RxSequence, 7, MAC(q) \o <<h>>, 0)
Ack(a, d) ==
    MeshMessage(MSG_ACK, MAC(a), MAC(d), 0, RxSequence, 0, <<>>, 0)

\* A received buffer with what the unwritten bytes of the local MeshMessage
\* hold: the frame as its sender's sendBroadcast / sendUnicast put it on the wire.
Rx(f) == [buf |-> WireBytes(f), junk |-> 0]

\* hopCount values of received DATA frames: around MAX_HOP_COUNT, and the extremes.
HopValues == {0, 4, 5, 255}

\* Spec: frames of every type from one neighbour (2), a route advertised by
\* another (3), frames that carry the node's own address as source, and a
\* buffer shorter than the header.
SpecFrames ==
    {Discovery(2, h, 1) : h \in {0, 3}}
    \cup {Heartbeat(2, 0, 0), Ack(2, Self), RouteReply(3, Self, Far, 2)}
    \cup {Data(2, d, h, Hi) : d \in {Self, Far}, h \in HopValues}
    \cup {RouteRequest(2, q, h) : q \in {Self, Far}, h \in {4, 5}}
    \cup {Discovery(Self, 0, 1), Heartbeat(Self, 0, 0), Ack(Self, 2),
          RouteReply(Self, 2, Far, 2), RouteRequest(Self, Far, 4)}
    \cup {Data(Self, d, 4, Hi) : d \in {Self, Far}}
SpecInputs == {Rx(f) : f \in SpecFrames} \cup {[buf |-> <<MSG_DATA, 2, 2>>, junk |-> 0]}
SpecDests == {2, Far}
\* Spec's clock: boot, and PEER_TIMEOUT later.
SpecClock == {0, PEER_TIMEOUT}

\* The values millis() takes.
ClockPoints == <<0, 1, PEER_TIMEOUT, PEER_TIMEOUT + 1,
                 HEARTBEAT_INTERVAL, HEARTBEAT_INTERVAL + 1>>
Clock == {ClockPoints[i] : i \in 1..MaxClock}

\* ==================== Steps ====================

NoBytes == <<>>

\* No frame is on its way through the codec.
NoFrame == MeshMessage(0, MAC(0), MAC(0), 0, 0, 0, <<>>, 0)
NoCodec == [stage |-> "none", frame |-> NoFrame, bytes |-> NoBytes, msg |-> NoFrame]

\* The main task is not inside meshLoop.
Idle == [pc |-> "idle", writeIdx |-> 0]

Call(name, n, buf, junk, dest, data) ==
    [name |-> name, node |-> n, buf |-> buf, junk |-> junk, dest |-> dest,
     data |-> data]

\* The globals of node n after a call that ended in state s, and what the
\* call sent and delivered.
Commit(n, s) ==
    /\ peers' = [peers EXCEPT ![n] = s.peers]
    /\ routingTable' = [routingTable EXCEPT ![n] = s.routingTable]
    /\ sequenceNumber' = [sequenceNumber EXCEPT ![n] = s.sequenceNumber]
    /\ isGateway' = [isGateway EXCEPT ![n] = s.isGateway]
    /\ lastHeartbeat' = [lastHeartbeat EXCEPT ![n] = s.lastHeartbeat]
    /\ onDataReceived' = [onDataReceived EXCEPT ![n] = s.onDataReceived]
    /\ sent' = s.out
    /\ delivered' = s.cb

\* initMesh: registers the callbacks and sends the initial discovery.
InitMesh(n) ==
    /\ ~meshUp[n]
    /\ meshUp' = [meshUp EXCEPT ![n] = TRUE]
    /\ Commit(n, sendDiscovery(NodeState(n)))
    /\ op' = Call("initMesh", n, NoBytes, 0, NoBytes, NoBytes)
    /\ UNCHANGED <<now, air, inbox, outbox, codec, mainTask>>

\* The link driver's receive callback.
Recv(n, buf, junk) ==
    /\ meshUp[n]
    /\ LET s == onDataRecv(NodeState(n), buf, junk, now)
       IN /\ s.sequenceNumber <= MaxOriginated
          /\ Commit(n, s)
    /\ op' = Call("onDataRecv", n, buf, junk, NoBytes, NoBytes)
    /\ UNCHANGED <<meshUp, now, air, inbox, outbox, codec, mainTask>>

SendData(n, dest, data) ==
    /\ meshUp[n]
    /\ sequenceNumber[n] < MaxOriginated
    /\ Commit(n, sendData(NodeState(n), dest, data, Len(data)))
    /\ op' = Call("sendData", n, NoBytes, 0, dest, data)
    /\ UNCHANGED <<meshUp, now, air, inbox, outbox, codec, mainTask>>

MeshLoop(n) ==
    /\ meshUp[n]
    /\ sequenceNumber[n] < MaxOriginated
    /\ Commit(n, meshLoop(NodeState(n), now))
    /\ op' = Call("meshLoop", n, NoBytes, 0, NoBytes, NoBytes)
    /\ UNCHANGED <<meshUp, now, air, inbox, outbox, codec, mainTask>>

SetDataCallback(n, registered) ==
    /\ onDataReceived[n] # registered
    /\ Commit(n, [NodeState(n) EXCEPT !.onDataReceived = registered])
    /\ op' = Call("setDataCallback", n, NoBytes, 0, NoBytes, NoBytes)
    /\ UNCHANGED <<meshUp, now, air, inbox, outbox, codec, mainTask>>

SetGatewayMode(n, gateway) ==
    /\ isGateway[n] # gateway
    /\ Commit(n, [NodeState(n) EXCEPT !.isGateway = gateway])
    /\ op' = Call("setGatewayMode", n, NoBytes, 0, NoBytes, NoBytes)
    /\ UNCHANGED <<meshUp, now, air, inbox, outbox, codec, mainTask>>

\* Time passes.
Tick(clock) ==
    /\ \E t \in clock : t > now /\ now' = t
    /\ op' = Call("tick", 0, NoBytes, 0, NoBytes, NoBytes)
    /\ sent' = <<>>
    /\ delivered' = <<>>
    /\ UNCHANGED <<meshUp, peers, routingTable, sequenceNumber, isGateway,
                   lastHeartbeat, onDataReceived, air, inbox, outbox, codec,
                   mainTask>>

\* ==================== Specification of one node ====================

AllNodes == {1, 2, 3}

Init ==
    /\ meshUp = [n \in AllNodes |-> FALSE]
    /\ peers = [n \in AllNodes |-> <<>>]
    /\ routingTable = [n \in AllNodes |-> <<>>]
    /\ sequenceNumber = [n \in AllNodes |-> 0]
    /\ isGateway = [n \in AllNodes |-> FALSE]
    /\ lastHeartbeat = [n \in AllNodes |-> 0]
    /\ onDataReceived = [n \in AllNodes |-> FALSE]
    /\ now = 0
    /\ op = Call("boot", 0, NoBytes, 0, NoBytes, NoBytes)
    /\ sent = <<>>
    /\ delivered = <<>>
    /\ air = {}
    /\ inbox = [n \in AllNodes |-> {}]
    /\ outbox = {}
    /\ codec = NoCodec
    /\ mainTask = Idle

Next ==
    \/ InitMesh(Self)
    \/ \E in \in SpecInputs : Recv(Self, in.buf, in.junk)
    \/ \E d \in SpecDests : SendData(Self, MAC(d), Hi)
    \/ MeshLoop(Self)
    \/ \E b \in BOOLEAN : SetDataCallback(Self, b)
    \/ \E b \in BOOLEAN : SetGatewayMode(Self, b)
    \/ Tick(SpecClock)

Spec == Init /\ [][Next]_vars

\* ==================== What the last step did ====================

\* The last step was onDataRecv on a buffer long enough to be processed.
Processed == op.name = "onDataRecv" /\ Len(op.buf) >= HEADER_SIZE
\* The frame it processed, as processMessage saw it.
RxMsg == ReadMessage(op.buf, op.junk)
\* The last step processed a frame of type ty.
ProcessedType(ty) == Processed /\ RxMsg.type = ty
\* The frame carried the receiving node's own address as its source.
RxFromSelf == RxMsg.srcMac = MAC(op.node)
\* The i-th frame the last step sent, decoded from its bytes.
SentMsg(i) == ReadMessage(sent[i].bytes, 0)
\* The routing entry of node n for dest after the step (0: none).
RouteOf(n, dest) == findRoute(NodeState(n), dest)
\* The received buffer with its hopCount byte replaced by h.
WithHop(buf, h) == [buf EXCEPT ![14] = h]

\* ==================== Claims checked under Spec ====================

\* C3 as stated: every frame sent as a result of processing a received DATA
\* or ROUTE_REQUEST frame has hop_count strictly less than MAX_HOP_COUNT.
C3_SentBelowMaxHop ==
    (ProcessedType(MSG_DATA) \/ ProcessedType(MSG_ROUTE_REQUEST)) =>
        \A i \in 1..Len(sent) : SentMsg(i).hopCount < MAX_HOP_COUNT

\* C3 amended: every frame sent as a result of processing a received DATA or
\* ROUTE_REQUEST frame has hop_count at most MAX_HOP_COUNT (a frame received
\* with hop_count 4 is relayed with hop_count 5).
C3_SentAtMostMaxHop ==
    (ProcessedType(MSG_DATA) \/ ProcessedType(MSG_ROUTE_REQUEST)) =>
        \A i \in 1..Len(sent) : SentMsg(i).hopCount <= MAX_HOP_COUNT

\* A DATA frame received with hop_count 4 was relayed with hop_count 5.
C3_Witness ==
    /\ ProcessedType(MSG_DATA)
    /\ RxMsg.hopCount = MAX_HOP_COUNT - 1
    /\ Len(sent) = 1
    /\ SentMsg(1).hopCount = MAX_HOP_COUNT

\* C4: processing a frame whose src is the node's own address sends nothing,
\* does not invoke the data callback and leaves the peer table, the routing
\* table and the sequence counter (and every other global) unchanged.
C4_SelfQuiescence ==
    [][(op'.name = "onDataRecv" /\ Len(op'.buf) >= HEADER_SIZE
        /\ ReadMessage(op'.buf, op'.junk).srcMac = MAC(op'.node))
       => /\ sent' = <<>>
          /\ delivered' = <<>>
          /\ UNCHANGED <<peers, routingTable, sequenceNumber, isGateway,
                         lastHeartbeat, onDataReceived, meshUp>>]_vars

\* A DATA frame from the node's own address for another node was processed at
\* PEER_TIMEOUT by a node that holds a peer and a route.
C4_Witness ==
    /\ ProcessedType(MSG_DATA)
    /\ RxFromSelf
    /\ RxMsg.dstMac = MAC(Far)
    /\ now = PEER_TIMEOUT
    /\ peers[Self] # <<>>
    /\ routingTable[Self] # <<>>

\* C7: processing a DATA frame addressed to the node, from another node, with
\* a data callback registered, invokes the callback exactly once with the
\* frame's src and its data_len payload bytes and sends nothing, whatever the
\* hop_count and the routing table.
C7_DataDelivery ==
    (/\ ProcessedType(MSG_DATA)
     /\ RxMsg.dstMac = MAC(op.node)
     /\ ~RxFromSelf
     /\ Len(op.buf) = HEADER_SIZE + RxMsg.dataLen
     /\ onDataReceived[op.node])
    => /\ delivered = << [src |-> SubSeq(op.buf, 2, 7), len |-> RxMsg.dataLen,
                          data |-> SubSeq(op.buf, HEADER_SIZE + 1, Len(op.buf))] >>
       /\ sent = <<>>

\* A DATA frame for the node with hop_count 255 was delivered by a node that
\* has routes.
C7_Witness ==
    /\ ProcessedType(MSG_DATA)
    /\ RxMsg.dstMac = MAC(Self)
    /\ RxMsg.hopCount = 255
    /\ routingTable[Self] # <<>>
    /\ Len(delivered) = 1
    /\ delivered[1].data = Hi

\* C9: sendData hands the frame to route.next_hop when the routing table has
\* an entry for dst and broadcasts it when it has none.
C9_OriginationRouteSelection ==
    op.name = "sendData" =>
        /\ Len(sent) = 1
        /\ sent[1].to = IF RouteOf(op.node, op.dest) # 0
                        THEN routingTable[op.node][RouteOf(op.node, op.dest)].nextHop
                        ELSE BROADCAST_MAC

\* C10: a received DATA frame for another node is relayed exactly once, with
\* hop_count + 1 and otherwise unchanged, to route.next_hop when a route to
\* dst exists and as a broadcast otherwise, if its hop_count < 5; if its
\* hop_count >= 5 nothing is sent. The callback is not invoked either way.
C10_DataForwarding ==
    (/\ ProcessedType(MSG_DATA)
     /\ RxMsg.dstMac # MAC(op.node)
     /\ ~RxFromSelf
     /\ Len(op.buf) = HEADER_SIZE + RxMsg.dataLen)
    => /\ delivered = <<>>
       /\ IF RxMsg.hopCount < 5
          THEN sent = << [to |-> IF RouteOf(op.node, RxMsg.dstMac) # 0
                                 THEN routingTable[op.node]
                                          [RouteOf(op.node, RxMsg.dstMac)].nextHop
                                 ELSE BROADCAST_MAC,
                          bytes |-> WithHop(op.buf, RxMsg.hopCount + 1)] >>
          ELSE sent = <<>>

\* A DATA frame for Far received with hop_count 4 was relayed to the next hop
\* of the route to Far.
C10_Witness ==
    /\ ProcessedType(MSG_DATA)
    /\ RxMsg.dstMac = MAC(Far)
    /\ RxMsg.hopCount = 4
    /\ RouteOf(Self, MAC(Far)) # 0
    /\ Len(sent) = 1
    /\ sent[1].to = MAC(3)

\* C25: a DATA frame identified by (src, sequence) is delivered to the data
\* callback at most once and forwarded by a relay at most once: when two
\* copies of it (arriving over different paths, with different hop counts)
\* are processed one after the other, the second is neither delivered after
\* the first was delivered nor forwarded after the first was forwarded.
C25_DuplicateSuppression ==
    [][LET a == ReadMessage(op.buf, op.junk)
           b == ReadMessage(op'.buf, op'.junk)
       IN (/\ op.name = "onDataRecv" /\ op'.name = "onDataRecv"
           /\ op.node = op'.node
           /\ Len(op.buf) >= HEADER_SIZE /\ Len(op'.buf) >= HEADER_SIZE
           /\ a.type = MSG_DATA /\ b.type = MSG_DATA
           /\ a.srcMac = b.srcMac
           /\ a.sequenceNum = b.sequenceNum)
          => /\ ~(delivered # <<>> /\ delivered' # <<>>)
             /\ ~(sent # <<>> /\ sent' # <<>>)
      ]_vars

\* ==================== Specification of the peer table ====================

\* PeerSpec: more neighbours (2, 3, 4) than the peer table holds, heard at
\* the clock's times, so that entries are refreshed, go stale, are evicted by
\* meshLoop and by an insert into the full table, and inserts are dropped.
PeerFrames ==
    {Heartbeat(a, 0, 0) : a \in {Self, 2, 3, 4}}
    \cup {Discovery(2, 3, 1), Data(3, Self, 4, Hi)}
PeerInputs == {Rx(f) : f \in PeerFrames}

PeerNext ==
    \/ InitMesh(Self)
    \/ \E in \in PeerInputs : Recv(Self, in.buf, in.junk)
    \/ SendData(Self, MAC(2), Hi)
    \/ MeshLoop(Self)
    \/ Tick(Clock)

PeerSpec == Init /\ [][PeerNext]_vars

\* ==================== Claims checked under PeerSpec: last-seen ====================

\* C27: in a step in which the clock does not go back, the lastSeen of an
\* address that is in the peer table before and after the step does not
\* decrease, and after a step that processed a frame from an address (not
\* the node's own) the entry of that address, if the table holds one, has
\* lastSeen equal to the time of the step.
C27_MonotonicLastSeen ==
    [][now' >= now =>
        \A n \in AllNodes : \A a \in {2, 3, 4} :
            LET i == findPeer(NodeState(n), MAC(a)) + 1
                j == findPeer([peers |-> peers'[n]], MAC(a)) + 1
            IN /\ (i >= 1 /\ j >= 1) =>
                     peers'[n][j].lastSeen >= peers[n][i].lastSeen
               /\ (/\ op'.name = "onDataRecv"
                   /\ op'.node = n
                   /\ Len(op'.buf) >= HEADER_SIZE
                   /\ ReadMessage(op'.buf, op'.junk).srcMac = MAC(a)
                   /\ j >= 1) => peers'[n][j].lastSeen = now'
      ]_vars

\* Neighbour 2 entered the table at time 0 (before neighbour 3, which is
\* still there with lastSeen 0) and a frame from 2 processed at a later time
\* refreshed its entry to that time.
C27_Witness ==
    /\ Processed
    /\ RxMsg.srcMac = MAC(2)
    /\ now > 0
    /\ Len(peers[Self]) = 2
    /\ peers[Self][1].mac = MAC(2)
    /\ peers[Self][1].lastSeen = now
    /\ peers[Self][2].mac = MAC(3)
    /\ peers[Self][2].lastSeen = 0

\* ==================== Specification of the routing table ====================

\* RouteSpec: DISCOVERY frames from three neighbours and ROUTE_REPLY frames
\* in which each of them advertises Far with 2 or 3 hops, one advertising a
\* neighbour and one the node's own address, in any order.
RouteFrames ==
    {Discovery(a, 3, 0) : a \in {Self, 2, 3, 4}}
    \cup {RouteReply(a, Self, Far, h) : a \in {2, 3, 4}, h \in {2, 3}}
    \cup {RouteReply(3, Self, 2, 2), RouteReply(Self, 2, Far, 2)}
RouteInputs == {Rx(f) : f \in RouteFrames}

RouteNext ==
    \/ InitMesh(Self)
    \/ \E in \in RouteInputs : Recv(Self, in.buf, in.junk)
    \/ SendData(Self, MAC(Far), Hi)

RouteSpec == Init /\ [][RouteNext]_vars

\* ==================== Claims checked under PeerSpec ====================

\* C1: no two of the first peerCount entries of the peer table hold the same
\* address.
C1_PeerUniqueness ==
    \A n \in AllNodes : \A i, j \in 1..Len(peers[n]) :
        i # j => peers[n][i].mac # peers[n][j].mac

\* The table is full and a frame from the peer in its first slot was just
\* processed: that entry was refreshed at time 1 while the second entry,
\* added after it, was last heard at time 0.
C1_Witness ==
    /\ Processed
    /\ Len(peers[Self]) = MAX_PEERS
    /\ RxMsg.srcMac = peers[Self][1].mac
    /\ peers[Self][1].lastSeen = 1
    /\ peers[Self][2].lastSeen = 0

\* The entries of ps that are not stale at time t, in their order.
FreshAt(ps, t) == SelectSeq(ps, LAMBDA p : t - p.lastSeen < PEER_TIMEOUT)

\* The step is meshLoop on node n with a heartbeat due.
EvictingLoop(n) ==
    /\ op'.name = "meshLoop" /\ op'.node = n
    /\ now - lastHeartbeat[n] > HEARTBEAT_INTERVAL

\* The step processes a frame from an address that is not node n's and not
\* in its peer table, while that table is full.
InsertIntoFull(n) ==
    /\ op'.name = "onDataRecv" /\ op'.node = n
    /\ Len(op'.buf) >= HEADER_SIZE
    /\ SubSeq(op'.buf, 2, 7) # MAC(n)
    /\ \A i \in 1..Len(peers[n]) : peers[n][i].mac # SubSeq(op'.buf, 2, 7)
    /\ Len(peers[n]) >= MAX_PEERS

\* C6: when removeStalePeers runs at time now (in meshLoop when a heartbeat
\* is due, in addPeer when the table is full) the peer table becomes exactly
\* its previous entries with now - last_seen < PEER_TIMEOUT, in their order
\* (followed, in addPeer, by the new peer if that made room); an entry with
\* now - last_seen = PEER_TIMEOUT goes. No other step removes or reorders
\* peer entries.
C6_Eviction ==
    [][\A n \in AllNodes :
        LET kept == FreshAt(peers[n], now)
        IN /\ EvictingLoop(n) => peers'[n] = kept
           /\ InsertIntoFull(n) =>
                IF Len(kept) < MAX_PEERS
                THEN /\ Len(peers'[n]) = Len(kept) + 1
                     /\ SubSeq(peers'[n], 1, Len(kept)) = kept
                     /\ peers'[n][Len(kept) + 1].mac = SubSeq(op'.buf, 2, 7)
                ELSE peers'[n] = peers[n]
           /\ ~EvictingLoop(n) /\ ~InsertIntoFull(n) =>
                /\ Len(peers'[n]) >= Len(peers[n])
                /\ \A i \in 1..Len(peers[n]) : peers'[n][i].mac = peers[n][i].mac
      ]_vars

\* meshLoop ran at PEER_TIMEOUT with two peers in the table (the count its
\* heartbeat carries) and left one, last heard at time 1: the other, last
\* heard at time 0, was exactly PEER_TIMEOUT old.
C6_Witness ==
    /\ op.name = "meshLoop"
    /\ now = PEER_TIMEOUT
    /\ Len(sent) = 1
    /\ SentMsg(1).type = MSG_HEARTBEAT
    /\ DataAt(SentMsg(1), 0) = 2
    /\ Len(peers[Self]) = 1
    /\ peers[Self][1].lastSeen = 1

\* ==================== Claims checked under RouteSpec ====================

\* C2: no two of the first routeCount routing entries hold the same
\* destination.
C2_RouteUniqueness ==
    \A n \in AllNodes : \A i, j \in 1..Len(routingTable[n]) :
        i # j => routingTable[n][i].destination # routingTable[n][j].destination

\* A ROUTE_REPLY for a destination that already had a route through another
\* neighbour was processed, and the table holds two routes: one learnt from a
\* DISCOVERY and one from a ROUTE_REPLY.
C2_Witness ==
    /\ ProcessedType(MSG_ROUTE_REPLY)
    /\ ~RxFromSelf
    /\ Len(routingTable[Self]) = 2
    /\ RouteOf(Self, DataMac(RxMsg)) # 0
    /\ routingTable[Self][RouteOf(Self, DataMac(RxMsg))].nextHop # RxMsg.srcMac
    /\ \E i \in 1..2 : routingTable[Self][i].destination = routingTable[Self][i].nextHop

\* update(D, 2, 3); update(D, 3, 2); update(D, 4, 2) on an empty table.
RouteScenario ==
    updateRoute(updateRoute(updateRoute([routingTable |-> <<>>],
        MAC(Far), MAC(2), 3, 0), MAC(Far), MAC(3), 2, 0), MAC(Far), MAC(4), 2, 0)

\* C5: an updateRoute(d, nh2, h2) for a destination that has a route (nh1,
\* h1) leaves next hop and hop count unchanged when h2 >= h1 and replaces
\* both when h2 < h1 (updateRoute is called with (payload destination, src,
\* payload hop count) for a ROUTE_REPLY and with (src, src, 1) for a
\* DISCOVERY); and update(D,X,3), update(D,Y,2), update(D,Z,2) leave D via Y
\* with hop count 2.
C5_RouteStrictness ==
    [][/\ LET m == ReadMessage(op'.buf, op'.junk)
              n == op'.node
              d == IF m.type = MSG_ROUTE_REPLY THEN SubSeq(op'.buf, 19, 24)
                   ELSE m.srcMac
              h2 == IF m.type = MSG_ROUTE_REPLY THEN op'.buf[25] ELSE 1
              k == RouteOf(n, d)
          IN (/\ op'.name = "onDataRecv"
              /\ Len(op'.buf) >= HEADER_SIZE
              /\ m.srcMac # MAC(n)
              /\ m.type \in {MSG_ROUTE_REPLY, MSG_DISCOVERY}
              /\ k # 0)
             => /\ Len(routingTable'[n]) = Len(routingTable[n])
                /\ routingTable'[n][k].destination = d
                /\ IF h2 >= routingTable[n][k].hopCount
                   THEN /\ routingTable'[n][k].nextHop = routingTable[n][k].nextHop
                        /\ routingTable'[n][k].hopCount = routingTable[n][k].hopCount
                   ELSE /\ routingTable'[n][k].nextHop = m.srcMac
                        /\ routingTable'[n][k].hopCount = h2
       /\ Len(RouteScenario.routingTable) = 1
       /\ RouteScenario.routingTable[1].destination = MAC(Far)
       /\ RouteScenario.routingTable[1].nextHop = MAC(3)
       /\ RouteScenario.routingTable[1].hopCount = 2
      ]_vars

\* The route to Far goes through 3 with 2 hops and a ROUTE_REPLY in which 4
\* advertises Far with 2 hops as well was just processed.
C5_Witness ==
    /\ ProcessedType(MSG_ROUTE_REPLY)
    /\ RxMsg.srcMac = MAC(4)
    /\ DataMac(RxMsg) = MAC(Far)
    /\ DataAt(RxMsg, 6) = 2
    /\ RouteOf(Self, MAC(Far)) # 0
    /\ routingTable[Self][RouteOf(Self, MAC(Far))].nextHop = MAC(3)
    /\ routingTable[Self][RouteOf(Self, MAC(Far))].hopCount = 2

\* ==================== Specification of a network ====================

\* NetSpec: three nodes in a line, 1 - 2 - 3, each running the engine, with
\* reliable links: a frame handed to esp_now_send reaches every neighbour in
\* radio range it is addressed to (all of them for the broadcast address)
\* whose receive callback is registered. The clock stands still.
Originator == 1
Relay == 2
Destination == 3
Neighbours(n) ==
    CASE n = Originator -> {Relay}
      [] n = Relay -> {Originator, Destination}
      [] n = Destination -> {Relay}

\* The frames put in flight by node n handing out to esp_now_send.
Transmit(n, out) ==
    {[from |-> n, to |-> m, bytes |-> out[i].bytes] :
        <<m, i>> \in {mi \in Neighbours(n) \X (1..Len(out)) :
                        /\ meshUp[mi[1]]
                        /\ out[mi[2]].to \in {BROADCAST_MAC, MAC(mi[1])}}}

\* What the application of node n has been given, after a call that made the
\* callback invocations cb.
Given(n, cb) ==
    [inbox EXCEPT ![n] = @ \cup {[src |-> cb[i].src, data |-> cb[i].data] :
                                    i \in 1..Len(cb)}]

\* Every application registers its data callback before initMesh.
NetInit ==
    /\ meshUp = [n \in AllNodes |-> FALSE]
    /\ peers = [n \in AllNodes |-> <<>>]
    /\ routingTable = [n \in AllNodes |-> <<>>]
    /\ sequenceNumber = [n \in AllNodes |-> 0]
    /\ isGateway = [n \in AllNodes |-> FALSE]
    /\ lastHeartbeat = [n \in AllNodes |-> 0]
    /\ onDataReceived = [n \in AllNodes |-> TRUE]
    /\ now = 0
    /\ op = Call("boot", 0, NoBytes, 0, NoBytes, NoBytes)
    /\ sent = <<>>
    /\ delivered = <<>>
    /\ air = {}
    /\ inbox = [n \in AllNodes |-> {}]
    /\ outbox = {}
    /\ codec = NoCodec
    /\ mainTask = Idle

NetInitMesh(n) ==
    /\ ~meshUp[n]
    /\ meshUp' = [meshUp EXCEPT ![n] = TRUE]
    /\ LET s == sendDiscovery(NodeState(n))
       IN /\ Commit(n, s)
          /\ air' = air \cup Transmit(n, s.out)
    /\ op' = Call("initMesh", n, NoBytes, 0, NoBytes, NoBytes)
    /\ UNCHANGED <<now, inbox, outbox, codec, mainTask>>

\* A frame in flight reaches its receiver's onDataRecv.
NetRecv(f) ==
    /\ f \in air
    /\ meshUp[f.to]
    /\ LET s == onDataRecv(NodeState(f.to), f.bytes, 0, now)
       IN /\ Commit(f.to, s)
          /\ air' = (air \ {f}) \cup Transmit(f.to, s.out)
          /\ inbox' = Given(f.to, s.cb)
    /\ op' = Call("onDataRecv", f.to, f.bytes, 0, NoBytes, NoBytes)
    /\ UNCHANGED <<meshUp, now, outbox, codec, mainTask>>

\* Once discovery has been exchanged (every node is up and no frame is in
\* flight), the originator's application sends one payload to the destination.
NetSendData ==
    /\ \A n \in AllNodes : meshUp[n]
    /\ air = {}
    /\ Cardinality(outbox) < MaxNetData
    /\ LET s == sendData(NodeState(Originator), MAC(Destination), Hi, Len(Hi))
       IN /\ Commit(Originator, s)
          /\ air' = air \cup Transmit(Originator, s.out)
    /\ outbox' = outbox \cup {[src |-> MAC(Originator), dst |-> MAC(Destination),
                               data |-> Hi]}
    /\ op' = Call("sendData", Originator, NoBytes, 0, MAC(Destination), Hi)
    /\ UNCHANGED <<meshUp, now, inbox, codec, mainTask>>

NetNext ==
    \/ \E n \in AllNodes : NetInitMesh(n)
    \/ \E f \in air : NetRecv(f)
    \/ NetSendData

NetSpec == NetInit /\ [][NetNext]_vars

\* ==================== Claims checked under NetSpec ====================

\* C8: in the line 1 - 2 - 3 with reliable links, a payload handed to
\* sendData(3, payload) at node 1 after discovery is delivered to node 3's
\* data callback: once every node knows its neighbours as peers and no frame
\* is in flight any more, node 3's application has been given every payload
\* sent to it.
C8_MultiHopDelivery ==
    (/\ outbox # {}
     /\ air = {}
     /\ \A n \in AllNodes : \A m \in Neighbours(n) :
            findPeer(NodeState(n), MAC(m)) >= 0) =>
        \A m \in outbox : [src |-> m.src, data |-> m.data] \in inbox[Destination]

\* ==================== Specification of discovery ====================

\* DiscSpec: DISCOVERY frames from neighbour 2 with hop counts around the
\* reply limit and at the extremes, announcing gateway or not; one from 3 and
\* one from 4; HEARTBEAT frames from 2 and 3 whose first payload byte (a peer
\* count) is 1; ROUTE_REPLY frames in which 3 advertises 2; the application
\* switching gateway mode.
DiscFrames ==
    {Discovery(2, h, g) : h \in {0, 2, 3, 255}, g \in {0, 1}}
    \cup {Discovery(3, 0, 1), Discovery(4, 3, 0), Discovery(Self, 0, 1)}
    \cup {Heartbeat(2, 1, 0), Heartbeat(3, 1, 0)}
    \cup {RouteReply(3, Self, 2, h) : h \in {1, 2}}
DiscInputs == {Rx(f) : f \in DiscFrames}

DiscNext ==
    \/ InitMesh(Self)
    \/ \E in \in DiscInputs : Recv(Self, in.buf, in.junk)
    \/ \E b \in BOOLEAN : SetGatewayMode(Self, b)

DiscSpec == Init /\ [][DiscNext]_vars

\* ==================== Claims checked under DiscSpec ====================

\* The last step processed a DISCOVERY frame from another node and sent the
\* reply the claim describes if the frame's hop_count < 3, nothing otherwise.
DiscoveryReplied ==
    IF RxMsg.hopCount < 3
    THEN /\ Len(sent) = 1
         /\ sent[1].to = RxMsg.srcMac
         /\ Len(sent[1].bytes) = HEADER_SIZE + 1
         /\ SentMsg(1).type = MSG_DISCOVERY
         /\ SentMsg(1).srcMac = MAC(op.node)
         /\ SentMsg(1).dstMac = RxMsg.srcMac
         /\ SentMsg(1).hopCount = RxMsg.hopCount + 1
         /\ SentMsg(1).dataLen = 1
         /\ SentMsg(1).data = << IF isGateway[op.node] THEN 1 ELSE 0 >>
    ELSE sent = <<>>

\* C11 as stated: on a received DISCOVERY from src (not own) the node sends a
\* reply iff hop_count < 3 (unicast to src, hop_count + 1, one payload byte
\* equal to its gateway flag), and afterwards the routing table holds a route
\* to src with next_hop = src and hop_count 1, unless it is full without one.
C11_DiscoveryHandling ==
    (ProcessedType(MSG_DISCOVERY) /\ ~RxFromSelf) =>
        /\ DiscoveryReplied
        /\ LET k == RouteOf(op.node, RxMsg.srcMac)
           IN IF k # 0
              THEN /\ routingTable[op.node][k].nextHop = RxMsg.srcMac
                   /\ routingTable[op.node][k].hopCount = 1
              ELSE Len(routingTable[op.node]) >= MAX_PEERS

\* C11 amended: the reply as stated; the route to src becomes src via src
\* with hop count 1 when there was none and the table had room or when the
\* one there had hop_count > 1; a route to src with hop_count <= 1 keeps its
\* next hop and hop count; without a route and with a full table the routing
\* table is unchanged.
C11_DiscoveryHandlingAmended ==
    [][LET m == ReadMessage(op'.buf, op'.junk)
           n == op'.node
           k == RouteOf(n, m.srcMac)
           old == routingTable[n]
           new == routingTable'[n]
       IN (/\ op'.name = "onDataRecv"
           /\ Len(op'.buf) >= HEADER_SIZE
           /\ m.type = MSG_DISCOVERY
           /\ m.srcMac # MAC(n))
          => /\ DiscoveryReplied'
             /\ IF k # 0
                THEN /\ Len(new) = Len(old)
                     /\ \A i \in 1..Len(old) : i # k =>
                            /\ new[i].destination = old[i].destination
                            /\ new[i].nextHop = old[i].nextHop
                            /\ new[i].hopCount = old[i].hopCount
                     /\ new[k].destination = m.srcMac
                     /\ IF old[k].hopCount > 1
                        THEN new[k].nextHop = m.srcMac /\ new[k].hopCount = 1
                        ELSE /\ new[k].nextHop = old[k].nextHop
                             /\ new[k].hopCount = old[k].hopCount
                ELSE IF Len(old) < MAX_PEERS
                     THEN /\ Len(new) = Len(old) + 1
                          /\ SubSeq(new, 1, Len(old)) = old
                          /\ new[Len(new)].destination = m.srcMac
                          /\ new[Len(new)].nextHop = m.srcMac
                          /\ new[Len(new)].hopCount = 1
                     ELSE new = old
      ]_vars

\* A DISCOVERY from 2 with hop_count 2 was answered with hop_count 3 by a
\* gateway node that had heard 3 before 2 (3 advertised a route to 2), and
\* whose route to 2 goes through 2 itself with hop count 1.
C11_Witness ==
    /\ ProcessedType(MSG_DISCOVERY)
    /\ RxMsg.srcMac = MAC(2)
    /\ RxMsg.hopCount = 2
    /\ isGateway[Self]
    /\ Len(sent) = 1
    /\ SentMsg(1).hopCount = 3
    /\ SentMsg(1).data = <<1>>
    /\ Len(peers[Self]) = 2
    /\ peers[Self][1].mac = MAC(3)
    /\ Len(routingTable[Self]) = 1
    /\ routingTable[Self][1].destination = MAC(2)
    /\ routingTable[Self][1].nextHop = MAC(2)
    /\ routingTable[Self][1].hopCount = 1

\* The positions of the gateway entries in node n's peer table.
GatewayEntries(n) == {i \in 1..Len(peers[n]) : peers[n][i].isGateway}

\* C16: getNearestGateway returns the peer entry with is_gateway true whose
\* hop_count (any value 0..255) is minimal among the gateway entries, the
\* earliest table position winning ties, and returns nothing if and only if
\* no peer entry has is_gateway true.
C16_NearestGateway ==
    \A n \in AllNodes :
        LET g == getNearestGateway(NodeState(n))
        IN /\ g = 0 <=> GatewayEntries(n) = {}
           /\ g # 0 =>
                /\ g \in GatewayEntries(n)
                /\ \A j \in GatewayEntries(n) :
                      /\ peers[n][g].hopCount <= peers[n][j].hopCount
                      /\ peers[n][j].hopCount = peers[n][g].hopCount => g <= j

\* C20: after processing a DISCOVERY frame from a src that already has a
\* peer entry, that entry's is_gateway equals the frame's gateway flag
\* (data[0] == 1), its last_seen is now and its hop_count is the frame's
\* hop_count.
C20_GatewayFlagRefresh ==
    [][LET m == ReadMessage(op'.buf, op'.junk)
           n == op'.node
           i == findPeer(NodeState(n), m.srcMac) + 1
       IN (/\ op'.name = "onDataRecv"
           /\ Len(op'.buf) = HEADER_SIZE + 1
           /\ m.type = MSG_DISCOVERY
           /\ m.srcMac # MAC(n)
           /\ i >= 1)
          => /\ peers'[n][i].mac = m.srcMac
             /\ peers'[n][i].isGateway = (m.data[1] = 1)
             /\ peers'[n][i].lastSeen = now
             /\ peers'[n][i].hopCount = m.hopCount
      ]_vars

\* C21: processing a frame whose type is not DISCOVERY never sets or changes
\* is_gateway from its payload: an existing entry keeps its is_gateway, and
\* a peer entry created by such a frame is not marked as a gateway.
C21_GatewayHintOnlyFromDiscovery ==
    [][LET m == ReadMessage(op'.buf, op'.junk)
           n == op'.node
           i == findPeer(NodeState(n), m.srcMac) + 1
           j == findPeer([peers |-> peers'[n]], m.srcMac) + 1
       IN (/\ op'.name = "onDataRecv"
           /\ Len(op'.buf) >= HEADER_SIZE
           /\ m.type # MSG_DISCOVERY
           /\ m.srcMac # MAC(n))
          => IF i >= 1
             THEN peers'[n][i].isGateway = peers[n][i].isGateway
             ELSE j >= 1 => ~peers'[n][j].isGateway
      ]_vars

\* ==================== Specification of discovery between nodes ====================

\* PairSpec: the nodes of NetSpec, each of which may be put in gateway mode
\* before its initMesh, start in any order and exchange DISCOVERY frames.
PairNext ==
    \/ \E n \in AllNodes : ~meshUp[n] /\ SetGatewayMode(n, TRUE)
    \/ \E n \in AllNodes : NetInitMesh(n)
    \/ \E f \in air : NetRecv(f)

PairSpec == NetInit /\ [][PairNext]_vars

\* ==================== Claims checked under PairSpec ====================

\* C12: when a gateway node b with empty tables processes the initial
\* DISCOVERY (hop_count 0, payload [0]) of a node a, it records a as a peer
\* with hop_count 0, adds the route a via a with hop count 1 and unicasts to a
\* a DISCOVERY with hop_count 1 and payload [1]; when a node a with empty
\* tables processes such a reply (hop_count 1, payload [1]) from b, its peer
\* table contains b with is_gateway true, its routing table contains b via b
\* with hop count 1 and getNearestGateway returns b's entry.
C12_TwoNodeDiscovery ==
    [][LET m == ReadMessage(op'.buf, op'.junk)
           n == op'.node
           tablesWereEmpty == peers[n] = <<>> /\ routingTable[n] = <<>>
           nowHolds ==
               /\ Len(peers'[n]) = 1
               /\ peers'[n][1].mac = m.srcMac
               /\ peers'[n][1].hopCount = m.hopCount
               /\ Len(routingTable'[n]) = 1
               /\ routingTable'[n][1].destination = m.srcMac
               /\ routingTable'[n][1].nextHop = m.srcMac
               /\ routingTable'[n][1].hopCount = 1
       IN (/\ op'.name = "onDataRecv"
           /\ Len(op'.buf) = HEADER_SIZE + 1
           /\ m.type = MSG_DISCOVERY
           /\ m.srcMac # MAC(n)
           /\ tablesWereEmpty)
          => /\ (m.hopCount = 0 /\ m.data = <<0>> /\ isGateway[n]) =>
                    /\ nowHolds
                    /\ Len(sent') = 1
                    /\ sent'[1].to = m.srcMac
                    /\ ReadMessage(sent'[1].bytes, 0).type = MSG_DISCOVERY
                    /\ ReadMessage(sent'[1].bytes, 0).srcMac = MAC(n)
                    /\ ReadMessage(sent'[1].bytes, 0).hopCount = 1
                    /\ ReadMessage(sent'[1].bytes, 0).dataLen = 1
                    /\ ReadMessage(sent'[1].bytes, 0).data = <<1>>
             /\ (m.hopCount = 1 /\ m.data = <<1>>) =>
                    /\ nowHolds
                    /\ peers'[n][1].isGateway
                    /\ getNearestGateway([peers |-> peers'[n]]) = 1
      ]_vars

\* Node 1 with one peer, 2, recorded as a gateway with hop_count 1 and
\* returned by getNearestGateway, has just processed the reply of 2 (hop_count
\* 1, payload [1]), which 2, a gateway that knows 1 with a route of 1 hop,
\* sent on processing the initial DISCOVERY of 1.
C12_Witness ==
    /\ ProcessedType(MSG_DISCOVERY)
    /\ op.node = 1
    /\ RxMsg.srcMac = MAC(2)
    /\ RxMsg.hopCount = 1
    /\ RxMsg.data = <<1>>
    /\ isGateway[2] /\ ~isGateway[1]
    /\ Len(peers[1]) = 1
    /\ peers[1][1].isGateway
    /\ getNearestGateway(NodeState(1)) = 1
    /\ findPeer(NodeState(2), MAC(1)) >= 0
    /\ RouteOf(2, MAC(1)) # 0

\* ==================== Specification of the receive path ====================

\* The first len bytes of frame f's wire form, received while the unwritten
\* bytes of onDataRecv's local MeshMessage hold junk.
Truncated(f, len, junk) == [buf |-> SubSeq(WireBytes(f), 1, len), junk |-> junk]

\* What an uninitialised byte may hold.
JunkValues == {0, 1}

\* A DATA frame whose header declares 201 payload bytes.
Oversized(a, d) ==
    MeshMessage(MSG_DATA, MAC(a), MAC(d), 0, RxSequence, MAX_DATA_SIZE + 1, Hi, 0)

\* DecodeSpec: buffers of whole frames, buffers cut short inside the header,
\* and buffers whose header declares more payload than they carry (HEARTBEAT,
\* DISCOVERY and DATA frames cut after the header or inside the payload, and
\* a DATA frame declaring 201 bytes).
DecodeInputs ==
    {Rx(f) : f \in {Heartbeat(2, 0, 0), Data(2, Self, 0, Hi), Data(3, Far, 0, Hi)}}
    \cup {Truncated(Heartbeat(2, 0, 0), len, 0) : len \in {0, HEADER_SIZE - 1}}
    \cup {Truncated(f, HEADER_SIZE, j) :
            f \in {Heartbeat(3, 0, 0), Discovery(3, 0, 1), Data(3, Self, 0, Hi)},
            j \in JunkValues}
    \cup {Truncated(Data(2, Far, 0, Hi), HEADER_SIZE + 1, j) : j \in JunkValues}
    \cup {Truncated(Oversized(2, Self), HEADER_SIZE + 2, j) : j \in JunkValues}

DecodeNext ==
    \/ InitMesh(Self)
    \/ \E in \in DecodeInputs : Recv(Self, in.buf, in.junk)
    \/ SetDataCallback(Self, TRUE)

DecodeSpec == Init /\ [][DecodeNext]_vars

\* ==================== Claims checked under DecodeSpec ====================

\* The data_len a buffer of at least 18 bytes declares.
DeclaredLen(buf) == buf[17] + 256 * buf[18]

\* The buffer is one the codec must reject.
MustReject(buf) ==
    \/ Len(buf) < 18
    \/ DeclaredLen(buf) > Len(buf) - 18
    \/ DeclaredLen(buf) > 200

\* C13: a received buffer shorter than 18 bytes, or whose declared data_len
\* exceeds the bytes after the 18-byte header or exceeds 200, changes neither
\* the peer table nor the routing table, sends nothing and invokes no callback.
C13_DecodeRejection ==
    [][(op'.name = "onDataRecv" /\ MustReject(op'.buf))
       => /\ sent' = <<>>
          /\ delivered' = <<>>
          /\ UNCHANGED <<peers, routingTable, sequenceNumber>>]_vars

\* C24: every routing entry's next_hop is either its own destination or the
\* address of an entry currently in the peer table.
C24_RouteNextHopValidity ==
    \A n \in AllNodes : \A i \in 1..Len(routingTable[n]) :
        \/ routingTable[n][i].nextHop = routingTable[n][i].destination
        \/ findPeer(NodeState(n), routingTable[n][i].nextHop) >= 0

\* ==================== Specification of the codec ====================

\* CodecSpec: one frame in a sender's memory goes through the send path
\* (sendBroadcast or sendUnicast) and the bytes handed to esp_now_send go
\* through the receive path (onDataRecv's length test and memcpy).
CodecPayloads == {<<>>, <<7>>, Hi, [i \in 1..MAX_DATA_SIZE |-> i % 256]}
CodecFrames ==
    {MeshMessage(ty, src, dst, h, seq, Len(p), p, 0) :
        ty \in {MSG_DISCOVERY, MSG_ACK},
        src \in {MAC(1), <<1, 2, 3, 4, 5, 6>>},
        dst \in {BROADCAST_MAC, <<7, 8, 9, 10, 11, 12>>},
        h \in {0, 255},
        seq \in {0, 258, 65535},
        p \in CodecPayloads}

CodecInit ==
    /\ meshUp = [n \in AllNodes |-> FALSE]
    /\ peers = [n \in AllNodes |-> <<>>]
    /\ routingTable = [n \in AllNodes |-> <<>>]
    /\ sequenceNumber = [n \in AllNodes |-> 0]
    /\ isGateway = [n \in AllNodes |-> FALSE]
    /\ lastHeartbeat = [n \in AllNodes |-> 0]
    /\ onDataReceived = [n \in AllNodes |-> FALSE]
    /\ now = 0
    /\ op = Call("boot", 0, NoBytes, 0, NoBytes, NoBytes)
    /\ sent = <<>>
    /\ delivered = <<>>
    /\ air = {}
    /\ inbox = [n \in AllNodes |-> {}]
    /\ outbox = {}
    /\ codec \in {[NoCodec EXCEPT !.stage = "frame", !.frame = f] : f \in CodecFrames}
    /\ mainTask = Idle

\* The send path: the bytes sendBroadcast or sendUnicast hands to esp_now_send.
Encode ==
    /\ codec.stage = "frame"
    /\ \E unicast \in BOOLEAN :
        LET s == IF unicast
                 THEN sendUnicast([out |-> <<>>], codec.frame.dstMac, codec.frame)
                 ELSE sendBroadcast([out |-> <<>>], codec.frame)
        IN codec' = [codec EXCEPT !.stage = "wire", !.bytes = s.out[1].bytes]
    /\ UNCHANGED <<meshUp, peers, routingTable, sequenceNumber, isGateway,
                   lastHeartbeat, onDataReceived, now, op, sent, delivered, air,
                   inbox, outbox, mainTask>>

\* The receive path: the MeshMessage onDataRecv hands to processMessage.
Decode ==
    /\ codec.stage = "wire"
    /\ Len(codec.bytes) >= HEADER_SIZE
    /\ \E junk \in JunkValues :
        codec' = [codec EXCEPT !.stage = "decoded",
                               !.msg = ReadMessage(codec.bytes, junk)]
    /\ UNCHANGED <<meshUp, peers, routingTable, sequenceNumber, isGateway,
                   lastHeartbeat, onDataReceived, now, op, sent, delivered, air,
                   inbox, outbox, mainTask>>

CodecNext == Encode \/ Decode

CodecSpec == CodecInit /\ [][CodecNext]_vars

\* ==================== Claims checked under CodecSpec ====================

\* C14: the bytes the send path produces for a frame f with data_len <= 200
\* are 18 + data_len bytes and decode on the receive path to a frame equal to
\* f in type, src, dst, hop_count, sequence, data_len and the first data_len
\* payload bytes.
C14_CodecRoundTrip ==
    (codec.stage = "decoded" /\ codec.frame.dataLen <= 200) =>
        /\ Len(codec.bytes) = 18 + codec.frame.dataLen
        /\ codec.msg.type = codec.frame.type
        /\ codec.msg.srcMac = codec.frame.srcMac
        /\ codec.msg.dstMac = codec.frame.dstMac
        /\ codec.msg.hopCount = codec.frame.hopCount
        /\ codec.msg.sequenceNum = codec.frame.sequenceNum
        /\ codec.msg.dataLen = codec.frame.dataLen
        /\ \A i \in 0..(codec.frame.dataLen - 1) :
                DataAt(codec.msg, i) = DataAt(codec.frame, i)

\* A frame with sequence 258, hop_count 255 and 200 payload bytes was encoded
\* to 218 bytes and decoded into a MeshMessage whose remaining bytes hold 1.
C14_Witness ==
    /\ codec.stage = "decoded"
    /\ codec.frame.sequenceNum = 258
    /\ codec.frame.hopCount = 255
    /\ codec.frame.dataLen = 200
    /\ Len(codec.bytes) = 218
    /\ codec.msg.junk = 1
    /\ codec.msg.srcMac = <<1, 2, 3, 4, 5, 6>>

\* ==================== Specification of route requests ====================

\* ReqSpec: ROUTE_REQUEST frames from neighbour 2 for the node itself, for
\* neighbour 3 and for Far, with hop counts around MAX_HOP_COUNT and at the
\* extremes; a DISCOVERY from 3 (a route of 1 hop), and ROUTE_REPLY frames in
\* which 3 advertises Far and the node's own address.
ReqFrames ==
    {RouteRequest(2, q, h) : q \in {Self, 3, Far}, h \in HopValues}
    \cup {RouteRequest(Self, Far, 0), Discovery(3, 3, 0),
          RouteReply(3, Self, Far, 2), RouteReply(3, Self, Self, 2)}
ReqInputs == {Rx(f) : f \in ReqFrames}

ReqNext ==
    \/ InitMesh(Self)
    \/ \E in \in ReqInputs : Recv(Self, in.buf, in.junk)

ReqSpec == Init /\ [][ReqNext]_vars

\* ==================== Claims checked under ReqSpec ====================

\* C15: on a received ROUTE_REQUEST for q, if q is the node's own address or
\* a route to q exists the node sends exactly one ROUTE_REPLY, unicast to the
\* request's src, carrying q followed by the advertised hop count: 1 whenever
\* q is the node's own address, route.hop_count + 1 otherwise. If neither
\* holds it rebroadcasts the request with hop_count + 1 when hop_count < 5
\* and sends nothing when hop_count >= 5.
C15_RouteRequestHandling ==
    (/\ ProcessedType(MSG_ROUTE_REQUEST)
     /\ ~RxFromSelf
     /\ Len(op.buf) = HEADER_SIZE + 6)
    => LET n == op.node
           q == DataMac(RxMsg)
           k == RouteOf(n, q)
       IN IF q = MAC(n) \/ k # 0
          THEN /\ Len(sent) = 1
               /\ sent[1].to = RxMsg.srcMac
               /\ Len(sent[1].bytes) = HEADER_SIZE + 7
               /\ SentMsg(1).type = MSG_ROUTE_REPLY
               /\ SentMsg(1).srcMac = MAC(n)
               /\ SentMsg(1).dstMac = RxMsg.srcMac
               /\ SentMsg(1).dataLen = 7
               /\ SubSeq(SentMsg(1).data, 1, 6) = q
               /\ SentMsg(1).data[7] = IF q = MAC(n) THEN 1
                                       ELSE routingTable[n][k].hopCount + 1
          ELSE IF RxMsg.hopCount < 5
               THEN sent = << [to |-> BROADCAST_MAC,
                               bytes |-> WithHop(op.buf, RxMsg.hopCount + 1)] >>
               ELSE sent = <<>>

\* ==================== Specification of the periodic driver ====================

\* HbSpec: meshLoop is called at boot, exactly HEARTBEAT_INTERVAL later, one
\* millisecond after that and at PEER_TIMEOUT, on a node that hears
\* HEARTBEAT frames from two neighbours and may be switched to gateway mode.
HbClock == {0, HEARTBEAT_INTERVAL, HEARTBEAT_INTERVAL + 1, PEER_TIMEOUT}
HbFrames == {Heartbeat(a, 0, 0) : a \in {2, 3}}
HbInputs == {Rx(f) : f \in HbFrames}

HbNext ==
    \/ InitMesh(Self)
    \/ \E in \in HbInputs : Recv(Self, in.buf, in.junk)
    \/ MeshLoop(Self)
    \/ \E b \in BOOLEAN : SetGatewayMode(Self, b)
    \/ Tick(HbClock)

HbSpec == Init /\ [][HbNext]_vars

\* ==================== Claims checked under HbSpec ====================

\* C17: a meshLoop call at time now with now - last_heartbeat >=
\* HEARTBEAT_INTERVAL (exactly equal included) broadcasts one HEARTBEAT with
\* hop_count 0 and payload [peer_count, gateway_flag], sets last_heartbeat to
\* now and evicts the stale peers; a call with now - last_heartbeat <
\* HEARTBEAT_INTERVAL sends nothing and changes no state.
C17_HeartbeatCadence ==
    [][op'.name = "meshLoop" =>
        LET n == op'.node
            hb == ReadMessage(sent'[1].bytes, 0)
        IN IF now - lastHeartbeat[n] >= HEARTBEAT_INTERVAL
           THEN /\ Len(sent') = 1
                /\ sent'[1].to = BROADCAST_MAC
                /\ Len(sent'[1].bytes) = HEADER_SIZE + 2
                /\ hb.type = MSG_HEARTBEAT
                /\ hb.srcMac = MAC(n)
                /\ hb.hopCount = 0
                /\ hb.dataLen = 2
                /\ hb.data = <<Len(peers[n]), IF isGateway[n] THEN 1 ELSE 0>>
                /\ lastHeartbeat'[n] = now
                /\ peers'[n] = FreshAt(peers[n], now)
           ELSE /\ sent' = <<>>
                /\ delivered' = <<>>
                /\ UNCHANGED <<peers, routingTable, sequenceNumber, isGateway,
                               lastHeartbeat, onDataReceived, meshUp, now>>
      ]_vars

\* ==================== Specification of full tables ====================

\* An address heard only once the tables are full.
Late == 6

\* TableSpec: DISCOVERY frames (not answered: hop_count 3) from more
\* neighbours than the tables hold, a ROUTE_REPLY advertising Far, and a DATA
\* frame for Far from Late, at boot and PEER_TIMEOUT later.
TableFrames ==
    {Discovery(a, 3, 0) : a \in {2, 3, 4, Late}}
    \cup {RouteReply(2, Self, Far, 2), Data(Late, Far, 0, Hi)}
TableInputs == {Rx(f) : f \in TableFrames}

TableNext ==
    \/ InitMesh(Self)
    \/ \E in \in TableInputs : Recv(Self, in.buf, in.junk)
    \/ Tick(SpecClock)

TableSpec == Init /\ [][TableNext]_vars

\* ==================== Claims checked under TableSpec ====================

\* C18: peerCount <= MAX_PEERS and routeCount <= MAX_PEERS in every state. A
\* frame from an unknown src arriving when the peer table is full first
\* evicts the stale peers (the new peer then takes the first free slot) and,
\* if the table is still full, leaves the peer table unchanged while the
\* frame is still dispatched (a DATA frame for another node is relayed, a
\* DISCOVERY adds its route if the routing table has room). An insert of a
\* route (by a DISCOVERY or a ROUTE_REPLY) into a full routing table leaves
\* the routing table unchanged.
C18_BoundedTables ==
    [][\A n \in AllNodes :
        LET m == ReadMessage(op'.buf, op'.junk)
            kept == FreshAt(peers[n], now)
            d == IF m.type = MSG_ROUTE_REPLY THEN SubSeq(op'.buf, 19, 24)
                 ELSE m.srcMac
            insertsRoute ==
                /\ op'.name = "onDataRecv" /\ op'.node = n
                /\ Len(op'.buf) >= HEADER_SIZE
                /\ m.srcMac # MAC(n)
                /\ m.type \in {MSG_DISCOVERY, MSG_ROUTE_REPLY}
                /\ RouteOf(n, d) = 0
        IN /\ Len(peers'[n]) <= MAX_PEERS
           /\ Len(routingTable'[n]) <= MAX_PEERS
           /\ InsertIntoFull(n) =>
                IF Len(kept) < MAX_PEERS
                THEN /\ Len(peers'[n]) = Len(kept) + 1
                     /\ SubSeq(peers'[n], 1, Len(kept)) = kept
                     /\ peers'[n][Len(kept) + 1].mac = m.srcMac
                ELSE /\ peers'[n] = peers[n]
                     /\ (m.type = MSG_DATA /\ m.dstMac # MAC(n) /\ m.hopCount < 5)
                            => Len(sent') = 1
                     /\ (insertsRoute /\ Len(routingTable[n]) < MAX_PEERS)
                            => Len(routingTable'[n]) = Len(routingTable[n]) + 1
           /\ (insertsRoute /\ Len(routingTable[n]) >= MAX_PEERS)
                => routingTable'[n] = routingTable[n]
      ]_vars

\* Both tables are full and none of their entries is for Late, whose DATA
\* frame for Far has just been relayed; the peers are not stale.
C18_Witness ==
    /\ ProcessedType(MSG_DATA)
    /\ RxMsg.srcMac = MAC(Late)
    /\ Len(peers[Self]) = MAX_PEERS
    /\ \A i \in 1..Len(peers[Self]) :
            /\ peers[Self][i].mac # MAC(Late)
            /\ peers[Self][i].lastSeen = now
    /\ Len(routingTable[Self]) = MAX_PEERS
    /\ now = PEER_TIMEOUT
    /\ Len(sent) = 1

\* ==================== Specification of the two execution contexts ====================

\* RaceSpec: initMesh registers onDataRecv with the link driver, which calls
\* it from its own task; onDataRecv calls processMessage directly and no
\* lock, queue or critical section orders it with the main task. The main
\* task's meshLoop call is therefore taken in three steps (the heartbeat and
\* lastHeartbeat = now; removeStalePeers' loop; peerCount = writeIdx), between
\* which the receive callback may run.
RaceFrames == {Heartbeat(a, 0, 0) : a \in {2, 3}}
RaceInputs == {Rx(f) : f \in RaceFrames}

\* meshLoop up to the call of removeStalePeers.
MeshLoopBegin(n) ==
    /\ meshUp[n]
    /\ mainTask.pc = "idle"
    /\ sequenceNumber[n] < MaxOriginated
    /\ IF HeartbeatDue(NodeState(n), now)
       THEN /\ Commit(n, [sendHeartbeat(NodeState(n)) EXCEPT !.lastHeartbeat = now])
            /\ mainTask' = [pc |-> "heartbeatSent", writeIdx |-> 0]
       ELSE /\ Commit(n, NodeState(n))
            /\ mainTask' = Idle
    /\ op' = Call("meshLoop", n, NoBytes, 0, NoBytes, NoBytes)
    /\ UNCHANGED <<meshUp, now, air, inbox, outbox, codec>>

\* removeStalePeers' loop: the array is compacted, peerCount not yet written.
MeshLoopCompact(n) ==
    /\ mainTask.pc = "heartbeatSent"
    /\ LET r == removeStalePeersLoop(peers[n], 0, 0, now)
       IN /\ Commit(n, [NodeState(n) EXCEPT !.peers = r.arr])
          /\ mainTask' = [pc |-> "compacted", writeIdx |-> r.writeIdx]
    /\ op' = Call("removeStalePeers", n, NoBytes, 0, NoBytes, NoBytes)
    /\ UNCHANGED <<meshUp, now, air, inbox, outbox, codec>>

\* peerCount = writeIdx, and meshLoop returns.
MeshLoopEnd(n) ==
    /\ mainTask.pc = "compacted"
    /\ Commit(n, [NodeState(n) EXCEPT !.peers = SubSeq(@, 1, mainTask.writeIdx)])
    /\ mainTask' = Idle
    /\ op' = Call("peerCount = writeIdx", n, NoBytes, 0, NoBytes, NoBytes)
    /\ UNCHANGED <<meshUp, now, air, inbox, outbox, codec>>

RaceNext ==
    \/ InitMesh(Self)
    \/ \E in \in RaceInputs : Recv(Self, in.buf, in.junk)
    \/ MeshLoopBegin(Self)
    \/ MeshLoopCompact(Self)
    \/ MeshLoopEnd(Self)
    \/ Tick(HbClock)

RaceSpec == Init /\ [][RaceNext]_vars

\* ==================== Claims checked under RaceSpec ====================

\* C19: the receive callback never runs processMessage while meshLoop (the
\* heartbeat and removeStalePeers) is part-way through reading or writing the
\* peer table and peerCount.
C19_SerializedProcessing ==
    [][(op'.name = "onDataRecv" /\ Len(op'.buf) >= HEADER_SIZE)
       => mainTask.pc = "idle"]_vars

\* ==================== Specification of empty payloads ====================

\* A DISCOVERY frame that declares no payload.
EmptyDiscovery(a, h) ==
    MeshMessage(MSG_DISCOVERY, MAC(a), BROADCAST_MAC, h, RxSequence, 0, <<>>, 0)

\* EmptySpec: DISCOVERY frames with data_len 0 from three neighbours,
\* received as 18 bytes while the local MeshMessage's unwritten bytes hold 0
\* or 1, and as 19 bytes, the byte after the header being 1; and a
\* DISCOVERY with its one payload byte, at boot and PEER_TIMEOUT later.
EmptyInputs ==
    {Truncated(EmptyDiscovery(a, h), HEADER_SIZE, j) :
        a \in {2, 3, 4}, h \in {0, 3}, j \in JunkValues}
    \cup {[buf |-> WireBytes(EmptyDiscovery(a, 3)) \o <<1>>, junk |-> 0] : a \in {2, 3}}
    \cup {Rx(Discovery(2, 3, 1))}

EmptyNext ==
    \/ InitMesh(Self)
    \/ \E in \in EmptyInputs : Recv(Self, in.buf, in.junk)
    \/ Tick(SpecClock)

EmptySpec == Init /\ [][EmptyNext]_vars

\* ==================== Claims checked under EmptySpec ====================

\* C22: processing a DISCOVERY frame with data_len == 0 from a new src
\* creates its peer entry with is_gateway false, whatever bytes lie in the
\* payload buffer beyond data_len.
C22_EmptyPayloadDiscovery ==
    [][LET m == ReadMessage(op'.buf, op'.junk)
           n == op'.node
           j == findPeer([peers |-> peers'[n]], m.srcMac) + 1
       IN (/\ op'.name = "onDataRecv"
           /\ Len(op'.buf) >= HEADER_SIZE
           /\ m.type = MSG_DISCOVERY
           /\ m.dataLen = 0
           /\ m.srcMac # MAC(n)
           /\ findPeer(NodeState(n), m.srcMac) < 0
           /\ j >= 1)
          => ~peers'[n][j].isGateway
      ]_vars

\* ==================== Specification of advertised hop counts ====================

\* AdvertSpec: ROUTE_REPLY frames in which neighbours 2 and 3 advertise Far
\* and neighbour 4 with hop counts 0, 2 and 255 (0 is also what a node
\* holding a route of 255 hops advertises, 255 + 1 in 8 bits), a DISCOVERY
\* from 2 and ROUTE_REQUEST frames for Far and 4.
AdvertFrames ==
    {RouteReply(a, Self, q, h) : a \in {2, 3}, q \in {Far, 4}, h \in {0, 2, 255}}
    \cup {Discovery(2, 3, 0)}
    \cup {RouteRequest(2, q, 0) : q \in {Far, 4}}
AdvertInputs == {Rx(f) : f \in AdvertFrames}

AdvertNext ==
    \/ InitMesh(Self)
    \/ \E in \in AdvertInputs : Recv(Self, in.buf, in.junk)

AdvertSpec == Init /\ [][AdvertNext]_vars

\* ==================== Claims checked under AdvertSpec ====================

\* C23: every routing entry has hop_count >= 1.
C23_RouteHopCountLowerBound ==
    \A n \in AllNodes : \A i \in 1..Len(routingTable[n]) :
        routingTable[n][i].hopCount >= 1

\* ==================== Specification of the sequence counter ====================

\* The counter value two frames before it wraps.
SeqStart == 65534
\* The values the counter takes in SeqSpec.
SeqWindow == {(SeqStart + k) % 65536 : k \in 0..MaxSeqOriginated}

\* SeqSpec: a node before initMesh, or one that has originated 65534 frames
\* (its initial DISCOVERY and 65533 sendData calls), originates and forwards
\* frames: it broadcasts its initial DISCOVERY, answers a DISCOVERY and a
\* ROUTE_REQUEST for itself, relays a DATA frame and a ROUTE_REQUEST for
\* Far, sends data and heartbeats.
SeqFrames ==
    {Discovery(2, 0, 0), Heartbeat(2, 0, 0), Data(2, Far, 0, Hi),
     Data(2, Self, 0, Hi), RouteRequest(2, Self, 0), RouteRequest(2, Far, 0)}
SeqInputs == {Rx(f) : f \in SeqFrames}

SeqInit ==
    /\ \E start \in {0, SeqStart} :
          /\ meshUp = [n \in AllNodes |-> n = Self /\ start # 0]
          /\ sequenceNumber = [n \in AllNodes |-> IF n = Self THEN start ELSE 0]
    /\ peers = [n \in AllNodes |-> <<>>]
    /\ routingTable = [n \in AllNodes |-> <<>>]
    /\ isGateway = [n \in AllNodes |-> FALSE]
    /\ lastHeartbeat = [n \in AllNodes |-> 0]
    /\ onDataReceived = [n \in AllNodes |-> FALSE]
    /\ now = 0
    /\ op = Call("boot", 0, NoBytes, 0, NoBytes, NoBytes)
    /\ sent = <<>>
    /\ delivered = <<>>
    /\ air = {}
    /\ inbox = [n \in AllNodes |-> {}]
    /\ outbox = {}
    /\ codec = NoCodec
    /\ mainTask = Idle

SeqRecv(n, buf, junk) ==
    /\ meshUp[n]
    /\ LET s == onDataRecv(NodeState(n), buf, junk, now)
       IN /\ s.sequenceNumber \in SeqWindow
          /\ Commit(n, s)
    /\ op' = Call("onDataRecv", n, buf, junk, NoBytes, NoBytes)
    /\ UNCHANGED <<meshUp, now, air, inbox, outbox, codec, mainTask>>

SeqSendData(n, dest, data) ==
    /\ meshUp[n]
    /\ LET s == sendData(NodeState(n), dest, data, Len(data))
       IN /\ s.sequenceNumber \in SeqWindow
          /\ Commit(n, s)
    /\ op' = Call("sendData", n, NoBytes, 0, dest, data)
    /\ UNCHANGED <<meshUp, now, air, inbox, outbox, codec, mainTask>>

SeqMeshLoop(n) ==
    /\ meshUp[n]
    /\ LET s == meshLoop(NodeState(n), now)
       IN /\ s.sequenceNumber \in SeqWindow
          /\ Commit(n, s)
    /\ op' = Call("meshLoop", n, NoBytes, 0, NoBytes, NoBytes)
    /\ UNCHANGED <<meshUp, now, air, inbox, outbox, codec, mainTask>>

SeqNext ==
    \/ InitMesh(Self)
    \/ \E in \in SeqInputs : SeqRecv(Self, in.buf, in.junk)
    \/ SeqSendData(Self, MAC(2), Hi)
    \/ SeqMeshLoop(Self)
    \/ Tick(HbClock)

SeqSpec == SeqInit /\ [][SeqNext]_vars

\* ==================== Claims checked under SeqSpec ====================

\* C26: a step that originates a frame (the initial DISCOVERY, a DISCOVERY reply, a HEARTBEAT, a
\* DATA frame of sendData, a ROUTE_REPLY) gives it the node's address and
\* the counter value current before the step and advances the counter by
\* exactly one modulo 2^16 (65535 is followed by 0); a step that forwards a
\* received DATA or ROUTE_REQUEST keeps the frame's src and sequence and
\* leaves the counter alone, as does a step that sends nothing.
C26_SequenceCounter ==
    [][op'.node \in AllNodes =>
        LET n == op'.node
            m == ReadMessage(op'.buf, op'.junk)
            f == ReadMessage(sent'[1].bytes, 0)
        IN /\ Len(sent') <= 1
           /\ IF sent' = <<>>
              THEN sequenceNumber'[n] = sequenceNumber[n]
              ELSE IF op'.name = "onDataRecv"
                      /\ f.type \in {MSG_DATA, MSG_ROUTE_REQUEST}
                   THEN /\ f.srcMac = m.srcMac
                        /\ f.sequenceNum = m.sequenceNum
                        /\ sequenceNumber'[n] = sequenceNumber[n]
                   ELSE /\ f.srcMac = MAC(n)
                        /\ f.sequenceNum = sequenceNumber[n]
                        /\ sequenceNumber'[n] =
                              IF sequenceNumber[n] = 65535 THEN 0
                              ELSE sequenceNumber[n] + 1
      ]_vars

\* The node answered a ROUTE_REQUEST with a ROUTE_REPLY carrying sequence
\* 65535, and its counter is 0.
C26_Witness ==
    /\ ProcessedType(MSG_ROUTE_REQUEST)
    /\ Len(sent) = 1
    /\ SentMsg(1).type = MSG_ROUTE_REPLY
    /\ SentMsg(1).sequenceNum = 65535
    /\ sequenceNumber[Self] = 0

\* ==================== Specification of a flood ====================

\* FloodSpec: the line 1 - 2 - 3 of NetSpec, each node running the engine
\* (which suppresses no duplicates), and a station in radio range of node 1
\* only that originates a single DATA frame (for Far, which is nowhere, or
\* for node 3) or a single ROUTE_REQUEST (for Far) with hop_count 0, once
\* discovery has been exchanged. Frames in flight are kept as a multiset:
\* two equal copies on the same link are two frames.
Station == 4
FloodFrames ==
    {Data(Station, Far, 0, Hi), Data(Station, Destination, 0, Hi),
     RouteRequest(Station, Far, 0)}

\* The copy number given to a new frame on the link from -> to with these
\* bytes: the least one no frame in flight has.
FreeCopy(inflight, from, to, bytes) ==
    LET used == {f.copy : f \in {g \in inflight :
                     g.from = from /\ g.to = to /\ g.bytes = bytes}}
    IN CHOOSE k \in 1..(Cardinality(used) + 1) :
          k \notin used /\ \A j \in 1..(k - 1) : j \in used

\* Transmit, each frame tagged with its copy number (a call sends at most
\* one frame to a neighbour).
FloodTransmit(n, out, inflight) ==
    {[from |-> f.from, to |-> f.to, bytes |-> f.bytes,
      copy |-> FreeCopy(inflight, f.from, f.to, f.bytes)] :
        f \in Transmit(n, out)}

FloodInitMesh(n) ==
    /\ ~meshUp[n]
    /\ meshUp' = [meshUp EXCEPT ![n] = TRUE]
    /\ LET s == sendDiscovery(NodeState(n))
       IN /\ Commit(n, s)
          /\ air' = air \cup FloodTransmit(n, s.out, air)
    /\ op' = Call("initMesh", n, NoBytes, 0, NoBytes, NoBytes)
    /\ UNCHANGED <<now, inbox, outbox, codec, mainTask>>

\* A frame in flight reaches its receiver's onDataRecv.
FloodRecv(f) ==
    /\ f \in air
    /\ meshUp[f.to]
    /\ \E s \in {onDataRecv(NodeState(f.to), f.bytes, 0, now)} :
          /\ Commit(f.to, s)
          /\ air' = (air \ {f}) \cup FloodTransmit(f.to, s.out, air \ {f})
          /\ inbox' = Given(f.to, s.cb)
    /\ op' = Call("onDataRecv", f.to, f.bytes, 0, NoBytes, NoBytes)
    /\ UNCHANGED <<meshUp, now, outbox, codec, mainTask>>

\* The network delivers some frame in flight.
FloodDeliver == \E f \in air : FloodRecv(f)

\* The station's frame goes on the air, towards node 1.
FloodOriginate(msg) ==
    /\ \A n \in AllNodes : meshUp[n]
    /\ air = {}
    /\ outbox = {}
    /\ air' = {[from |-> Station, to |-> Originator, bytes |-> WireBytes(msg),
                copy |-> 1]}
    /\ outbox' = {[src |-> msg.srcMac, dst |-> msg.dstMac, data |-> msg.data]}
    /\ op' = Call("originate", 0, NoBytes, 0, NoBytes, NoBytes)
    /\ sent' = <<>>
    /\ delivered' = <<>>
    /\ UNCHANGED <<meshUp, peers, routingTable, sequenceNumber, isGateway,
                   lastHeartbeat, onDataReceived, now, inbox, codec, mainTask>>

FloodNext ==
    \/ \E n \in AllNodes : FloodInitMesh(n)
    \/ FloodDeliver
    \/ \E msg \in FloodFrames : FloodOriginate(msg)

FloodSpec == NetInit /\ [][FloodNext]_vars

\* The link driver hands every frame it has received to onDataRecv.
FloodFairSpec == FloodSpec /\ WF_vars(FloodDeliver)

\* ==================== Claims checked under FloodFairSpec ====================

\* The DATA and ROUTE_REQUEST frames in flight.
FloodCopies ==
    {f \in air : ReadMessage(f.bytes, 0).type \in {MSG_DATA, MSG_ROUTE_REQUEST}}

\* C28: when a node processes a DATA or ROUTE_REQUEST frame, every copy of
\* it that the node relays has a hop_count strictly greater than the received
\* one, and the node relays none if the received hop_count has reached
\* MAX_HOP_COUNT; and after the single originated frame the network
\* eventually has no DATA or ROUTE_REQUEST frame in flight, for good.
C28_FloodTermination ==
    /\ [][(/\ op'.name = "onDataRecv"
           /\ Len(op'.buf) >= HEADER_SIZE
           /\ ReadMessage(op'.buf, 0).type \in {MSG_DATA, MSG_ROUTE_REQUEST}) =>
            \A i \in 1..Len(sent') :
               LET m == ReadMessage(op'.buf, 0)
                   f == ReadMessage(sent'[i].bytes, 0)
               IN f.type = m.type =>
                     /\ f.hopCount > m.hopCount
                     /\ m.hopCount < MAX_HOP_COUNT
         ]_vars
    /\ <>[](FloodCopies = {})

\* The flood of the station's frame for Far has died out: a copy with
\* hop_count 5 was received and not relayed, and none is in flight.
C28_Witness ==
    /\ outbox # {}
    /\ ProcessedType(MSG_DATA)
    /\ RxMsg.dstMac = MAC(Far)
    /\ RxMsg.hopCount = MAX_HOP_COUNT
    /\ sent = <<>>
    /\ FloodCopies = {}

\* ==================== Specification of the discovery exchange ====================

\* ExchangeSpec: the nodes of the line 1 - 2 - 3 start in any order; the
\* initial DISCOVERY broadcast of each reaches the neighbours that are up,
\* and every frame in flight is delivered (frames in flight are a multiset,
\* as in FloodSpec). Only DISCOVERY frames are sent.
ExchangeNext ==
    \/ \E n \in AllNodes : FloodInitMesh(n)
    \/ FloodDeliver

ExchangeSpec == NetInit /\ [][ExchangeNext]_vars

\* The link driver hands every frame it has received to onDataRecv.
ExchangeFairSpec == ExchangeSpec /\ WF_vars(FloodDeliver)

\* ==================== Claims checked under ExchangeFairSpec ====================

\* The DISCOVERY replies sent so far: every frame a node has originated
\* takes one sequence number, and all but its initial broadcast are replies.
RepliesSent ==
    LET replies(n) == sequenceNumber[n] - (IF meshUp[n] THEN 1 ELSE 0)
    IN replies(Originator) + replies(Relay) + replies(Destination)

\* The initial broadcasts heard so far: between two neighbours that are both
\* up, the one that started first has heard the other's broadcast.
BroadcastsHeard ==
    Cardinality({e \in {{Originator, Relay}, {Relay, Destination}} :
                    \A n \in e : meshUp[n]})

\* C29: a node that processes a DISCOVERY with hop_count below 3 from
\* another node sends exactly one frame, a DISCOVERY unicast to the sender
\* whose hop_count is the received one plus one; it sends nothing for a
\* DISCOVERY with hop_count 3; at most three replies have been sent for each
\* initial broadcast heard; and eventually no frame is in flight any more.
C29_DiscoveryExchangeTermination ==
    /\ [][LET m == ReadMessage(op'.buf, 0)
          IN (/\ op'.name = "onDataRecv"
              /\ Len(op'.buf) >= HEADER_SIZE
              /\ m.type = MSG_DISCOVERY
              /\ m.srcMac # MAC(op'.node)) =>
                IF m.hopCount < DISCOVERY_HOP_LIMIT
                THEN /\ Len(sent') = 1
                     /\ sent'[1].to = m.srcMac
                     /\ ReadMessage(sent'[1].bytes, 0).type = MSG_DISCOVERY
                     /\ ReadMessage(sent'[1].bytes, 0).srcMac = MAC(op'.node)
                     /\ ReadMessage(sent'[1].bytes, 0).dstMac = m.srcMac
                     /\ ReadMessage(sent'[1].bytes, 0).hopCount = m.hopCount + 1
                ELSE sent' = <<>>
         ]_vars
    /\ [](RepliesSent <= 3 * BroadcastsHeard)
    /\ <>[](air = {})

\* Every node is up, the last frame in flight, a DISCOVERY with hop_count 3,
\* has been processed without an answer, and three replies were sent for
\* each of the two broadcasts heard.
C29_Witness ==
    /\ \A n \in AllNodes : meshUp[n]
    /\ ProcessedType(MSG_DISCOVERY)
    /\ RxMsg.hopCount = DISCOVERY_HOP_LIMIT
    /\ sent = <<>>
    /\ air = {}
    /\ RepliesSent = 6

=============================================================================
